---- MODULE Spec2Model ----
(***************************************************************************)
(* Model of pcap2csv.py: main's pre-flight checks, the pcap2csv loop that  *)
(* pairs each record of scapy's RawPcapReader with the next summary of     *)
(* pyshark's FileCapture, and render_csv_row's formatting of one row.      *)
(*                                                                         *)
(* Text is modelled as a sequence of tokens (strings); every character     *)
(* that the format string or a conversion produces is a token of its own,  *)
(* so that a row can be split again on the separator.                      *)
(***************************************************************************)
EXTENDS Integers, Sequences, FiniteSets, TLC

\* ---- bounds of the model ------------------------------------------------
MaxRecords == 3
MaxSummaries == 3

\* ---- protocol numbers used by the code ----------------------------------
ETH_P_IP == 2048
IPPROTO_UDP == 17
IPPROTO_TCP == 6

\* ---- the capture: what RawPcapReader yields -----------------------------
\* One raw record, as scapy dissects it: ethertype, IPv4 protocol field,
\* L4 ports and L4 payload bytes. IcmpPkt is IPv4 with protocol 1 (neither
\* UDP nor TCP); ArpPkt is an Ethernet frame of ethertype 0x0806 (no IPv4).
UdpPkt == [type |-> ETH_P_IP, proto |-> IPPROTO_UDP, sport |-> 53,
           dport |-> 1025, payload |-> <<171, 5>>]
TcpPkt == [type |-> ETH_P_IP, proto |-> IPPROTO_TCP, sport |-> 443,
           dport |-> 80, payload |-> <<>>]
IcmpPkt == [type |-> ETH_P_IP, proto |-> 1, sport |-> 0,
            dport |-> 0, payload |-> <<8, 0>>]
ArpPkt == [type |-> 2054, proto |-> 0, sport |-> 0,
           dport |-> 0, payload |-> <<>>]
NoPkt == [type |-> 0, proto |-> 0, sport |-> 0, dport |-> 0, payload |-> <<>>]

Packets == {UdpPkt, TcpPkt, IcmpPkt, ArpPkt}

SeqsUpTo(S, n) == UNION {[1..k -> S] : k \in 0..n}

Captures == SeqsUpTo(Packets, MaxRecords)

\* ---- conversions --------------------------------------------------------
Digits == <<"0", "1", "2", "3", "4", "5", "6", "7", "8", "9">>

RECURSIVE Str(_)
\* str(n) / '{}'.format(n) of a non-negative integer
Str(n) == IF n < 10 THEN <<Digits[n + 1]>>
          ELSE Str(n \div 10) \o <<Digits[(n % 10) + 1]>>

HexDigits == <<"0", "1", "2", "3", "4", "5", "6", "7",
               "8", "9", "a", "b", "c", "d", "e", "f">>

HexDigitsUpper == <<"0", "1", "2", "3", "4", "5", "6", "7",
                    "8", "9", "A", "B", "C", "D", "E", "F">>

RECURSIVE hex_upper(_)
hex_upper(bs) == IF bs = <<>> THEN <<>>
                 ELSE <<HexDigitsUpper[(bs[1] \div 16) + 1],
                        HexDigitsUpper[(bs[1] % 16) + 1]>> \o hex_upper(Tail(bs))

RECURSIVE hex(_)
\* bytes.hex(): two lowercase hexadecimal digits per byte
hex(bs) == IF bs = <<>> THEN <<>>
           ELSE <<HexDigits[(bs[1] \div 16) + 1],
                  HexDigits[(bs[1] % 16) + 1]>> \o hex(Tail(bs))

\* ---- the summary provider: what pyshark yields --------------------------
InfoTexts == {<<"Client Hello">>, <<"a", "|", "b">>}

\* The summary of frame i (only_summaries=True): tshark numbers frames 1..
Summary(i, info) ==
    [no |-> Str(i), time |-> <<"0.5">>, protocol |-> <<"DNS">>,
     info |-> info, source |-> <<"10.0.0.1">>,
     destination |-> <<"10.0.0.2">>, length |-> Str(60 + i)]

NoSummary == Summary(0, <<>>)

SummarySeqs ==
    {[i \in 1..Len(infos) |-> Summary(i, infos[i])] :
        infos \in SeqsUpTo(InfoTexts, MaxSummaries)}

\* ---- render_csv_row -----------------------------------------------------
\* Ether(pkt_sc)[IP] finds an IP layer
HasLayerIP(pkt_sc) == pkt_sc.type = ETH_P_IP

\* The local variables after the if/elif/else on proto; bound is the set
\* of names that have been assigned.
L4Locals(pkt_sc) ==
    IF pkt_sc.proto = IPPROTO_UDP
    THEN [l4_payload_bytes |-> pkt_sc.payload, l4_proto_name |-> <<"UDP">>,
          l4_sport |-> pkt_sc.sport, l4_dport |-> pkt_sc.dport,
          bound |-> {"l4_payload_bytes", "l4_proto_name", "l4_sport", "l4_dport"}]
    ELSE IF pkt_sc.proto = IPPROTO_TCP
    THEN [l4_payload_bytes |-> pkt_sc.payload, l4_proto_name |-> <<"TCP">>,
          l4_sport |-> pkt_sc.sport, l4_dport |-> pkt_sc.dport,
          bound |-> {"l4_payload_bytes", "l4_proto_name", "l4_sport", "l4_dport"}]
    ELSE [l4_payload_bytes |-> <<0>>, l4_proto_name |-> <<"???">>,
          l4_sport |-> 0, l4_dport |-> 0,
          bound |-> {"l4_payload_bytes", "l4_proto_name"}]

\* The eleven arguments of fmt.format, {0}..{10} as a[1]..a[11]
FormatArgs(pkt_sh, l4) ==
    <<pkt_sh.no, pkt_sh.time, pkt_sh.protocol, l4.l4_proto_name,
      pkt_sh.info, pkt_sh.source, Str(l4.l4_sport), pkt_sh.destination,
      Str(l4.l4_dport), pkt_sh.length, hex(l4.l4_payload_bytes)>>

\* fmt = '{0}|{1}|{2}({3})|{4}|{5}:{6}|{7}:{8}|{9}|{10}'
fmt(a) ==
    a[1] \o <<"|">> \o a[2] \o <<"|">> \o a[3] \o <<"(">> \o a[4] \o <<")">>
    \o <<"|">> \o a[5] \o <<"|">> \o a[6] \o <<":">> \o a[7] \o <<"|">>
    \o a[8] \o <<":">> \o a[9] \o <<"|">> \o a[10] \o <<"|">> \o a[11]

\* The outcome of one call: the exception it raises ("none" if it returns)
\* and the line it prints to fh_csv.
render_csv_row(pkt_sh, pkt_sc) ==
    IF ~HasLayerIP(pkt_sc)
    THEN [exc |-> "IndexError", row |-> <<>>]
    ELSE LET l4 == L4Locals(pkt_sc) IN
         IF {"l4_sport", "l4_dport"} \subseteq l4.bound
         THEN [exc |-> "none", row |-> fmt(FormatArgs(pkt_sh, l4))]
         ELSE [exc |-> "UnboundLocalError", row |-> <<>>]

\* ---- state --------------------------------------------------------------
VARIABLES
    pc,            \* position in main / pcap2csv
    pcapExists,    \* os.path.exists(args.pcap) when main starts
    csvExists,     \* os.path.exists(args.csv) when main starts
    capture,       \* the records of the capture file
    summaries,     \* the summaries the provider has for the capture file
    csv,           \* lines of the output file
    csvOpened,     \* open(out_csv, 'w') has been called
    providerOpened,\* pyshark.FileCapture has been constructed
    readerOpened,  \* RawPcapReader has been constructed
    packets,       \* pcap_pyshark._packets after load_packets()
    cursor,        \* pcap_pyshark._current_packet
    readerPos,     \* number of records RawPcapReader has yielded
    frame_num,
    pkt_scapy,
    pkt_pyshark,
    raised,        \* the last exception raised inside the try block
    stdout,
    stderr,
    exited,        \* <<code>> once sys.exit(code) has been called
    rendered       \* history: arguments of each render_csv_row call that printed

vars == <<pc, pcapExists, csvExists, capture, summaries, csv, csvOpened,
          providerOpened, readerOpened, packets, cursor, readerPos, frame_num,
          pkt_scapy, pkt_pyshark, raised, stdout, stderr, exited, rendered>>

OldCsv == <<<<"old">>>>

Init ==
    /\ pc = "main"
    /\ pcapExists \in BOOLEAN
    /\ csvExists \in BOOLEAN
    /\ IF pcapExists
       THEN capture \in Captures /\ summaries \in SummarySeqs
       ELSE capture = <<>> /\ summaries = <<>>
    /\ csv = IF csvExists THEN OldCsv ELSE <<>>
    /\ csvOpened = FALSE
    /\ providerOpened = FALSE
    /\ readerOpened = FALSE
    /\ packets = <<>>
    /\ cursor = 0
    /\ readerPos = 0
    /\ frame_num = 0
    /\ pkt_scapy = NoPkt
    /\ pkt_pyshark = NoSummary
    /\ raised = "none"
    /\ stdout = <<>>
    /\ stderr = <<>>
    /\ exited = <<>>
    /\ rendered = <<>>

\* ---- main ---------------------------------------------------------------
InputMissingCheck(exists) == ~exists

OutputExistsCheck_off(exists) == FALSE

OutputExistsCheck(exists) == exists

main_InputMissing ==
    /\ pc = "main"
    /\ InputMissingCheck(pcapExists)
    /\ stderr' = Append(stderr, <<"Input pcap file does not exist">>)
    /\ exited' = <<-1>>
    /\ pc' = "exit"
    /\ UNCHANGED <<pcapExists, csvExists, capture, summaries, csv, csvOpened,
                   providerOpened, readerOpened, packets, cursor, readerPos,
                   frame_num, pkt_scapy, pkt_pyshark, raised, stdout, rendered>>

main_OutputExists ==
    /\ pc = "main"
    /\ ~InputMissingCheck(pcapExists)
    /\ OutputExistsCheck(csvExists)
    /\ stderr' = Append(stderr, <<"Output csv file already exists, won't overwrite">>)
    /\ exited' = <<-1>>
    /\ pc' = "exit"
    /\ UNCHANGED <<pcapExists, csvExists, capture, summaries, csv, csvOpened,
                   providerOpened, readerOpened, packets, cursor, readerPos,
                   frame_num, pkt_scapy, pkt_pyshark, raised, stdout, rendered>>

main_Call ==
    /\ pc = "main"
    /\ ~InputMissingCheck(pcapExists)
    /\ ~OutputExistsCheck(csvExists)
    /\ pc' = "FileCapture"
    /\ UNCHANGED <<pcapExists, csvExists, capture, summaries, csv, csvOpened,
                   providerOpened, readerOpened, packets, cursor, readerPos,
                   frame_num, pkt_scapy, pkt_pyshark, raised, stdout, stderr,
                   exited, rendered>>

\* ---- pcap2csv -----------------------------------------------------------
\* pyshark.FileCapture(...); load_packets(); reset()
FileCapture ==
    /\ pc = "FileCapture"
    /\ providerOpened' = TRUE
    /\ packets' = summaries
    /\ cursor' = 0
    /\ pc' = "open"
    /\ UNCHANGED <<pcapExists, csvExists, capture, summaries, csv, csvOpened,
                   readerOpened, readerPos, frame_num, pkt_scapy, pkt_pyshark,
                   raised, stdout, stderr, exited, rendered>>

\* frame_num = 0; open(out_csv, 'w'); RawPcapReader(in_pcap)
open_csv ==
    /\ pc = "open"
    /\ frame_num' = 0
    /\ csv' = <<>>
    /\ csvOpened' = TRUE
    /\ readerOpened' = TRUE
    /\ readerPos' = 0
    /\ pc' = "for"
    /\ UNCHANGED <<pcapExists, csvExists, capture, summaries, providerOpened,
                   packets, cursor, pkt_scapy, pkt_pyshark, raised, stdout,
                   stderr, exited, rendered>>

NextRecordPos_skip(p) == p + 2

NextRecordPos(p) == p + 1

\* the for statement obtains the next record
for_Next ==
    /\ pc = "for"
    /\ readerPos < Len(capture)
    /\ pkt_scapy' = capture[readerPos + 1]
    /\ readerPos' = NextRecordPos(readerPos)
    /\ pc' = "try"
    /\ UNCHANGED <<pcapExists, csvExists, capture, summaries, csv, csvOpened,
                   providerOpened, readerOpened, packets, cursor, frame_num,
                   pkt_pyshark, raised, stdout, stderr, exited, rendered>>

\* the for statement finds the reader exhausted
for_End ==
    /\ pc = "for"
    /\ readerPos >= Len(capture)
    /\ pc' = "print"
    /\ UNCHANGED <<pcapExists, csvExists, capture, summaries, csv, csvOpened,
                   providerOpened, readerOpened, packets, cursor, readerPos,
                   frame_num, pkt_scapy, pkt_pyshark, raised, stdout, stderr,
                   exited, rendered>>

AdvanceCursor_stuck(c) == c

AdvanceCursor(c) == c + 1

Caught_all(exc) == TRUE

\* except StopIteration:
Caught(exc) == exc = "StopIteration"

\* where control goes when exc is raised inside the try block
AfterRaise(exc) == IF Caught(exc) THEN "print" ELSE "crashed"

\* pkt_pyshark = pcap_pyshark.next_packet(); frame_num += 1
next_packet_Ok ==
    /\ pc = "try"
    /\ cursor < Len(packets)
    /\ pkt_pyshark' = packets[cursor + 1]
    /\ cursor' = AdvanceCursor(cursor)
    /\ frame_num' = frame_num + 1
    /\ pc' = "render"
    /\ UNCHANGED <<pcapExists, csvExists, capture, summaries, csv, csvOpened,
                   providerOpened, readerOpened, packets, readerPos, pkt_scapy,
                   raised, stdout, stderr, exited, rendered>>

\* next_packet() raises StopIteration
next_packet_Stop ==
    /\ pc = "try"
    /\ cursor >= Len(packets)
    /\ raised' = "StopIteration"
    /\ pc' = AfterRaise("StopIteration")
    /\ UNCHANGED <<pcapExists, csvExists, capture, summaries, csv, csvOpened,
                   providerOpened, readerOpened, packets, cursor, readerPos,
                   frame_num, pkt_scapy, pkt_pyshark, stdout, stderr, exited,
                   rendered>>

\* render_csv_row(pkt_pyshark, pkt_scapy, fh_csv) returns
render_Ok ==
    /\ pc = "render"
    /\ LET r == render_csv_row(pkt_pyshark, pkt_scapy) IN
        /\ r.exc = "none"
        /\ csv' = Append(csv, r.row)
    /\ rendered' = Append(rendered, [rec |-> readerPos, sc |-> pkt_scapy,
                                     sh |-> pkt_pyshark])
    /\ pc' = "for"
    /\ UNCHANGED <<pcapExists, csvExists, capture, summaries, csvOpened,
                   providerOpened, readerOpened, packets, cursor, readerPos,
                   frame_num, pkt_scapy, pkt_pyshark, raised, stdout, stderr,
                   exited>>

\* render_csv_row(pkt_pyshark, pkt_scapy, fh_csv) raises
render_Raise ==
    /\ pc = "render"
    /\ LET r == render_csv_row(pkt_pyshark, pkt_scapy) IN
        /\ r.exc # "none"
        /\ raised' = r.exc
        /\ pc' = AfterRaise(r.exc)
    /\ UNCHANGED <<pcapExists, csvExists, capture, summaries, csv, csvOpened,
                   providerOpened, readerOpened, packets, cursor, readerPos,
                   frame_num, pkt_scapy, pkt_pyshark, stdout, stderr, exited,
                   rendered>>

\* print('{} packets read'.format(frame_num))
print_count ==
    /\ pc = "print"
    /\ stdout' = Append(stdout, Str(frame_num) \o <<" packets read">>)
    /\ pc' = "done"
    /\ UNCHANGED <<pcapExists, csvExists, capture, summaries, csv, csvOpened,
                   providerOpened, readerOpened, packets, cursor, readerPos,
                   frame_num, pkt_scapy, pkt_pyshark, raised, stderr, exited,
                   rendered>>

Next ==
    \/ main_InputMissing
    \/ main_OutputExists
    \/ main_Call
    \/ FileCapture
    \/ open_csv
    \/ for_Next
    \/ for_End
    \/ next_packet_Ok
    \/ next_packet_Stop
    \/ render_Ok
    \/ render_Raise
    \/ print_count

Spec == Init /\ [][Next]_vars

\* ---- helpers of the properties ------------------------------------------
Range(s) == {s[i] : i \in 1..Len(s)}

FirstBar(s) == CHOOSE k \in 1..Len(s) : s[k] = "|" /\ \A j \in 1..(k - 1) : s[j] # "|"

RECURSIVE SplitBar(_)
\* line.split('|')
SplitBar(s) == IF "|" \notin Range(s) THEN <<s>>
               ELSE <<SubSeq(s, 1, FirstBar(s) - 1)>>
                    \o SplitBar(SubSeq(s, FirstBar(s) + 1, Len(s)))

\* value of one lowercase hexadecimal digit, -1 for any other token
HexVal(c) == IF \E d \in 0..15 : HexDigits[d + 1] = c
             THEN CHOOSE d \in 0..15 : HexDigits[d + 1] = c
             ELSE -1

RECURSIVE Unhex(_)
\* the bytes a lowercase hex string encodes; <<-1>> if it encodes none
Unhex(cs) == IF cs = <<>> THEN <<>>
             ELSE IF Len(cs) = 1 \/ HexVal(cs[1]) < 0 \/ HexVal(cs[2]) < 0 THEN <<-1>>
             ELSE LET rest == Unhex(SubSeq(cs, 3, Len(cs))) IN
                  IF rest = <<-1>> THEN <<-1>>
                  ELSE <<16 * HexVal(cs[1]) + HexVal(cs[2])>> \o rest

BarCount(s) == Cardinality({k \in 1..Len(s) : s[k] = "|"})

IsUdpOrTcp(p) == HasLayerIP(p) /\ p.proto \in {IPPROTO_UDP, IPPROTO_TCP}

IsUnknownTransport(p) == HasLayerIP(p) /\ p.proto \notin {IPPROTO_UDP, IPPROTO_TCP}

WellFormed(cap) == \A i \in 1..Len(cap) : IsUdpOrTcp(cap[i])

AllIPv4(cap) == \A i \in 1..Len(cap) : HasLayerIP(cap[i])

Skipped(cap) == Cardinality({i \in 1..Len(cap) : ~HasLayerIP(cap[i])})

CountLine(n) == Str(n) \o <<" packets read">>

Min(a, b) == IF a < b THEN a ELSE b

K == Len(capture)

M == Len(summaries)

\* the eleven values of the row printed for a call, as the claim lists them
Values(r) ==
    <<r.sh.no, r.sh.time, r.sh.protocol,
      IF r.sc.proto = IPPROTO_UDP THEN <<"UDP">> ELSE <<"TCP">>,
      r.sh.info, r.sh.source, Str(r.sc.sport), r.sh.destination,
      Str(r.sc.dport), r.sh.length, hex(r.sc.payload)>>

NoBarIn(vs) == \A k \in 1..Len(vs) : "|" \notin Range(vs[k])

\* ---- C1 -----------------------------------------------------------------
\* C1: when the provider has fewer summaries than the capture has records
\* (M < K), the run never ends normally; it fails at record M+1.
C1_UnderProductionFails ==
    (csvOpened /\ M < K) => pc # "done"

\* ---- C2 -----------------------------------------------------------------
\* C2: in a run that reaches the final count line, the number of rows
\* written equals the number of records minus the skipped records, and is
\* the count printed.
C2_RowsEqualRecordsMinusSkipped ==
    pc = "done" =>
        /\ Len(csv) = K - Skipped(capture)
        /\ stdout = <<CountLine(Len(csv))>>

\* ---- C3 -----------------------------------------------------------------
\* C3: a record that is not Ethernet/IPv4 is skipped; it never aborts the
\* run.
C3_NonIPv4Skipped ==
    (pc = "crashed") => HasLayerIP(pkt_scapy)

\* ---- C4 -----------------------------------------------------------------
\* C4: an IPv4 record whose protocol is neither UDP nor TCP still gets its
\* row (transport '???', payload '00', empty ports); the run does not fail
\* on it.
C4_UnknownTransportRow ==
    IsUnknownTransport(pkt_scapy) =>
        /\ pc # "crashed"
        /\ raised # "UnboundLocalError"

\* ---- C5 -----------------------------------------------------------------
\* C5: with K well-formed UDP/TCP records and exactly K summaries the run
\* does not fail, the i-th row written has frame number i, and at the end
\* there are exactly K rows.
C5_FrameNumbers ==
    (csvOpened /\ WellFormed(capture) /\ M = K) =>
        /\ pc # "crashed"
        /\ raised = "none"
        /\ \A i \in 1..Len(csv) : SplitBar(csv[i])[1] = Str(i)
        /\ pc = "done" => Len(csv) = K

C5_Witness ==
    /\ pc = "done"
    /\ WellFormed(capture)
    /\ M = K
    /\ K >= 2
    /\ Len(csv) = K

\* ---- C6 -----------------------------------------------------------------
\* C6: if the input is missing or the output exists, main only ever exits
\* with a non-zero code: pcap2csv is not entered, neither reader is opened,
\* nothing is rendered and the output file keeps its content.
C6_PreflightRefusal ==
    (~pcapExists \/ csvExists) =>
        /\ pc \in {"main", "exit"}
        /\ pc = "exit" => (exited # <<>> /\ exited[1] # 0)
        /\ ~providerOpened
        /\ ~readerOpened
        /\ ~csvOpened
        /\ rendered = <<>>
        /\ stdout = <<>>
        /\ csv = IF csvExists THEN OldCsv ELSE <<>>

C6_Witness ==
    /\ pc = "exit"
    /\ pcapExists
    /\ csvExists
    /\ csv = OldCsv
    /\ exited = <<-1>>

\* ---- C7 -----------------------------------------------------------------
\* C7 as stated: a row whose values hold no '|' splits on '|' into exactly
\* the eleven values, in order.
C7_ElevenBarFields ==
    \A i \in 1..Len(rendered) :
        NoBarIn(Values(rendered[i])) => SplitBar(csv[i]) = Values(rendered[i])

\* C7 amended: every row holds the eleven values in the fixed order, laid
\* out as no|time|protocol(transport)|info|src:sport|dst:dport|length|hex;
\* a row whose values hold no '|' splits on '|' into exactly these eight
\* columns, and the last column is the lowercase hex of the payload.
C7_RowTemplate ==
    \A i \in 1..Len(rendered) :
        LET v == Values(rendered[i])
            cols == SplitBar(csv[i])
        IN  /\ Len(cols) = 8 + BarCount(v[5])
            /\ cols[1] = v[1]
            /\ cols[2] = v[2]
            /\ cols[3] = v[3] \o <<"(">> \o v[4] \o <<")">>
            /\ cols[Len(cols) - 3] = v[6] \o <<":">> \o v[7]
            /\ cols[Len(cols) - 2] = v[8] \o <<":">> \o v[9]
            /\ cols[Len(cols) - 1] = v[10]
            /\ Unhex(cols[Len(cols)]) = rendered[i].sc.payload
            /\ NoBarIn(v) => cols[4] = v[5]

C7_Witness ==
    \E i \in 1..Len(rendered) :
        /\ NoBarIn(Values(rendered[i]))
        /\ rendered[i].sc = UdpPkt
        /\ Len(SplitBar(csv[i])) = 8

\* ---- C8 -----------------------------------------------------------------
Between == {"for", "print", "done", "crashed"}

\* C8 as stated: between iterations the provider cursor equals the number
\* of records read, and row i combines record i with summary i.
C8_CursorEqualsRecordsRead ==
    providerOpened =>
        /\ pc \in Between => cursor = readerPos
        /\ \A i \in 1..Len(rendered) :
              rendered[i].sc = capture[i] /\ rendered[i].sh = packets[i]

\* C8 amended: the provider is advanced once for every record read while it
\* still has a summary, after the record is read and before it is rendered;
\* between iterations the cursor equals min(records read, M), so it falls
\* one behind only when the provider ran out on record M+1; row i combines
\* record i with summary i.
C8_LockstepPairing ==
    providerOpened =>
        /\ pc \in Between => cursor = Min(readerPos, Len(packets))
        /\ pc = "try" => cursor = readerPos - 1
        /\ pc = "render" => cursor = readerPos
        /\ Len(rendered) <= cursor
        /\ \A i \in 1..Len(rendered) :
              /\ rendered[i].rec = i
              /\ rendered[i].sc = capture[i]
              /\ rendered[i].sh = packets[i]

C8_Witness ==
    /\ pc = "print"
    /\ raised = "StopIteration"
    /\ Len(rendered) >= 1
    /\ cursor = M
    /\ readerPos = M + 1

\* ---- C9 -----------------------------------------------------------------
\* C9: when the provider has more summaries than the capture has records
\* (M > K), the run ends normally with K rows, the provider advanced
\* exactly K times, and the count K printed.
C9_OverProductionEndsNormally ==
    (csvOpened /\ M > K /\ AllIPv4(capture) /\ pc \in {"done", "crashed"}) =>
        /\ pc = "done"
        /\ Len(csv) = K
        /\ cursor = K
        /\ stdout = <<CountLine(K)>>

\* ---- C10 ----------------------------------------------------------------
\* C10: once render_csv_row has raised an exception other than StopIteration
\* for record i, the run has stopped for good: the output holds exactly the
\* complete rows of records 1..i-1, no later record is read, no count line
\* is printed, and frame_num is i.
C10_RenderExceptionAborts ==
    raised \notin {"none", "StopIteration"} =>
        /\ pc = "crashed"
        /\ ~ENABLED Next
        /\ readerPos >= 1
        /\ render_csv_row(pkt_pyshark, capture[readerPos]).exc = raised
        /\ Len(csv) = readerPos - 1
        /\ \A j \in 1..Len(csv) :
              /\ render_csv_row(packets[j], capture[j]).exc = "none"
              /\ csv[j] = render_csv_row(packets[j], capture[j]).row
        /\ stdout = <<>>
        /\ frame_num = readerPos
        /\ frame_num = Len(csv) + 1

C10_Witness ==
    /\ pc = "crashed"
    /\ raised \in {"IndexError", "UnboundLocalError"}
    /\ readerPos >= 2
    /\ readerPos < K
    /\ Len(csv) = readerPos - 1

====
